---- MODULE Spec2Model ----
(***************************************************************************)
(* doxxer: IP geolocation lookup tool (src/doxxer.py).                     *)
(*                                                                         *)
(* The model covers Geolocator (validate_input, get_ip_geolocation behind  *)
(* the ratelimit decorators, bulk_lookup over a ThreadPoolExecutor,        *)
(* save_results) and its two drivers, main (command line) and              *)
(* interactive_menu.  Strings are sequences of one-character strings, a    *)
(* dict is a function from field names to values, time is an integer       *)
(* number of seconds.                                                      *)
(***************************************************************************)
EXTENDS Integers, Sequences, FiniteSets, TLC

\* ------------------------------------------------------------------ bounds
\* longest list of identifiers handed to bulk_lookup
MaxBatch == 2
\* largest -w/--workers value tried on the command line
MaxWorkers == 2
\* seconds by which one step of the clock advances
TickStep == 30
\* the clock runs freely up to here (and further while a caller sleeps)
MaxTime == 30
\* a long interactive session starts no lookup once it has made this many calls
MaxCalls == 46
\* a short interactive session starts no lookup once it has made this many calls
MaxMenuCalls == 1

\* -------------------------------------------------------- program constants
\* @limits(calls=45, period=60)
CALLS == 45
PERIOD == 60
\* bulk_lookup(self, ips, max_workers=5)
DefaultWorkers == 5

\* ----------------------------------------------------------------- strings
Digits == {"0", "1", "2", "3", "4", "5", "6", "7", "8", "9"}
Letters ==
  {"a", "b", "c", "d", "e", "f", "g", "h", "i", "j", "k", "l", "m", "n", "o",
   "p", "q", "r", "s", "t", "u", "v", "w", "x", "y", "z",
   "A", "B", "C", "D", "E", "F", "G", "H", "I", "J", "K", "L", "M", "N", "O",
   "P", "Q", "R", "S", "T", "U", "V", "W", "X", "Y", "Z"}
\* the characters str.strip() removes
Whitespace == {" ", "\t", "\n", "\r", "\f"}

\* str.strip(): drop leading and trailing whitespace
RECURSIVE LStrip(_)
LStrip(s) == IF s # <<>> /\ Head(s) \in Whitespace THEN LStrip(Tail(s)) ELSE s
RECURSIVE RStrip(_)
RStrip(s) ==
  IF s # <<>> /\ s[Len(s)] \in Whitespace THEN RStrip(SubSeq(s, 1, Len(s) - 1)) ELSE s
strip(s) == RStrip(LStrip(s))

AllIn(s, cls) == \A i \in 1..Len(s) : s[i] \in cls

\* \d{1,3}
Octet(s) == Len(s) \in 1..3 /\ AllIn(s, Digits)

\* \d{1,3}\.\d{1,3}\.\d{1,3}\.\d{1,3} against the whole of s
IpFull(s) ==
  \E i, j, k \in 1..Len(s) :
    /\ i < j /\ j < k
    /\ s[i] = "." /\ s[j] = "." /\ s[k] = "."
    /\ Octet(SubSeq(s, 1, i - 1))
    /\ Octet(SubSeq(s, i + 1, j - 1))
    /\ Octet(SubSeq(s, j + 1, k - 1))
    /\ Octet(SubSeq(s, k + 1, Len(s)))

\* [a-zA-Z0-9.-]+\.[a-zA-Z]{2,} against the whole of s
DomainFull(s) ==
  \E i \in 1..Len(s) :
    /\ s[i] = "."
    /\ i > 1
    /\ AllIn(SubSeq(s, 1, i - 1), Letters \cup Digits \cup {".", "-"})
    /\ Len(s) - i >= 2
    /\ AllIn(SubSeq(s, i + 1, Len(s)), Letters)

\* "$" matches at the end of the string and also just before a newline that
\* ends the string: the ends at which a match of ^...$ may stop
MatchEnds(s) ==
  {Len(s)} \cup (IF s # <<>> /\ s[Len(s)] = "\n" THEN {Len(s) - 1} ELSE {})

\* ip_pattern.match(ip)
IpMatch(s) == \E n \in MatchEnds(s) : IpFull(SubSeq(s, 1, n))
\* domain_pattern.match(ip)
DomainMatch(s) == \E n \in MatchEnds(s) : DomainFull(SubSeq(s, 1, n))

\* Geolocator.validate_input
validate_input(ip) == IpMatch(ip) \/ DomainMatch(ip)

\* sample identifiers: command-line values, lines of a bulk file, menu input
Ip8 == <<"8", ".", "8", ".", "8", ".", "8">>
\* dotted quad with an octet over 255: the pattern accepts it
Ip999 == <<"9", "9", "9", ".", "9", ".", "9", ".", "9">>
DomCo == <<"a", ".", "c", "o">>
\* surrounded by blanks: valid only once stripped
PaddedCo == <<" ", "a", ".", "c", "o", " ">>
\* newline-terminated: "$" lets the unstripped form match
NewlineCo == <<"a", ".", "c", "o", "\n">>
\* top-level part of one letter
DomShort == <<"a", ".", "c">>
ThreeOctets == <<"1", ".", "1", ".", "1">>
WithBlank == <<"n", "o", " ", "i", "p">>

\* ------------------------------------------------------------ dictionaries
\* (mutant) the except branch forgetting the identifier
FailRecordNoQuery(ip, e) == [status |-> "fail", message |-> e]

\* the dict get_ip_geolocation builds in its except branch; e is str(e)
FailRecord(ip, e) == [status |-> "fail", query |-> ip, message |-> e]

\* JSON bodies the endpoint may answer with HTTP 200, by name: a success,
\* and "fail" bodies with and without the query and message fields
ApiBody(ip, name) ==
  CASE name = "success" -> [status |-> "success", query |-> ip, country |-> "US"]
    [] name = "fail" -> [status |-> "fail", query |-> ip, message |-> "invalid query"]
    [] name = "fail_noquery" -> [status |-> "fail", message |-> "invalid query"]
    [] name = "fail_nomessage" -> [status |-> "fail", query |-> ip]
BodyNames == {"success", "fail", "fail_noquery", "fail_nomessage"}

\* requests.exceptions.RequestException subclasses raised by requests.get /
\* raise_for_status
RequestExceptions == {"Timeout", "ConnectionError", "HTTPError"}

\* everything the endpoint and the network may do to a request
AllAnswers == BodyNames \cup RequestExceptions \cup {"notjson"}

\* what requests.get(url) may come back with, among the answers considered
Responses(ip, answers) ==
  { [kind |-> "body", body |-> ApiBody(ip, b)] : b \in answers \cap BodyNames }
    \cup { [kind |-> "raise", exc |-> e] : e \in answers \cap RequestExceptions }
    \cup { [kind |-> "notjson"] : x \in answers \cap {"notjson"} }

Ret(r) == [kind |-> "ret", rec |-> r]
Raise(e) == [kind |-> "exc", exc |-> e]
NoResult == [kind |-> "none"]

\* The try/except of get_ip_geolocation: the results the body may produce
\* on response resp.  response.json() on a body that is not JSON raises
\* requests.exceptions.JSONDecodeError (a RequestException) with requests
\* 2.27 and later, and a plain ValueError before: both are possible, the
\* source pins no version.
TryRequest(ip, resp) ==
  CASE resp.kind = "body" -> { Ret(resp.body) }
    [] resp.kind = "raise" -> { Ret(FailRecord(ip, resp.exc)) }
    [] resp.kind = "notjson" ->
         { Ret(FailRecord(ip, "JSONDecodeError")), Raise("ValueError") }

\* -------------------------------------------------------------- save_results
Formats == {"json", "csv", "txt"}

AsList(data) == IF data.kind = "dict" THEN <<data.rec>> ELSE data.recs

\* (mutant) extrasaction="ignore": no row is ever refused
NoExtra(rows, fieldnames) == 0

\* csv.DictWriter.writerows with the default extrasaction="raise": index of
\* the first row holding a key that is not a fieldname, 0 when there is none
FirstExtra(rows, fieldnames) ==
  LET bad == { k \in 1..Len(rows) : ~(DOMAIN rows[k] \subseteq fieldnames) }
  IN IF bad = {} THEN 0 ELSE CHOOSE k \in bad : \A j \in bad : k <= j

\* The file left behind and whether the try block raised.
\* io_ok: open(filename, "w") succeeds.
WriteFile(data, format, io_ok) ==
  IF ~io_ok
  THEN [raised |-> "OSError", created |-> FALSE, rows |-> <<>>, header |-> {}]
  ELSE IF format = "csv"
  THEN LET rows == AsList(data) IN
       IF rows = <<>>
       THEN [raised |-> "IndexError", created |-> TRUE, rows |-> <<>>, header |-> {}]
       ELSE LET fieldnames == DOMAIN rows[1]
                k == FirstExtra(rows, fieldnames) IN
            IF k = 0
            THEN [raised |-> "", created |-> TRUE, rows |-> rows, header |-> fieldnames]
            ELSE [raised |-> "ValueError", created |-> TRUE,
                  rows |-> SubSeq(rows, 1, k - 1), header |-> fieldnames]
  ELSE [raised |-> "", created |-> TRUE, rows |-> AsList(data), header |-> {}]

\* wall-clock seconds datetime.now() may read when a save happens
Stamps == {1, 2}

\* filename = filename or output/geolocation_results_<timestamp>.<format>
FileName(filename, format, ts) ==
  IF filename # "" THEN <<filename, 0, "">> ELSE <<"output/geolocation_results", ts, format>>

\* ------------------------------------------------------------------- state
VARIABLES
  now,          \* the clock (time.monotonic, whole seconds)
  last_reset,   \* RateLimitDecorator.last_reset of get_ip_geolocation
  num_calls,    \* RateLimitDecorator.num_calls of get_ip_geolocation
  args,         \* parse_args(): mode, ip, ips (lines of the bulk file), output, format, workers
  pc,           \* where the main thread is
  single,       \* the main thread's own get_ip_geolocation call
  ips,          \* bulk_lookup's ips
  max_workers,  \* bulk_lookup's max_workers
  futures,      \* bulk_lookup's futures, in submission order
  results,      \* bulk_lookup's results
  ret,          \* what the last bulk_lookup call came back with
  files,        \* the file system: file name -> what was written
  saves,        \* save_results calls of the run or menu choice under way: their outcomes
  order,        \* indices of futures in the order their lookups completed
  passed,       \* times at which a call got past the rate limiter
  started       \* get_ip_geolocation calls started so far

vars ==
  <<now, last_reset, num_calls, args, pc, single, ips, max_workers, futures, results,
    ret, files, saves, order, passed, started>>

limiter == <<last_reset, num_calls, passed>>
pool == <<ips, max_workers, futures, results, ret, order>>
disk == <<files, saves>>

\* one call of get_ip_geolocation: st is idle | queued | running | sleeping | done,
\* wake the end of its last sleep, resp what requests.get came back with,
\* res what the call returned or raised, gets the GETs it sent
NewCall(ip, st) ==
  [ip |-> ip, st |-> st, wake |-> 0, resp |-> NoResult, res |-> NoResult, gets |-> 0]
NoCall == NewCall(<<>>, "idle")

\* -------------------------------------------------------------- rate limiter
\* RateLimitDecorator.__call__ (ratelimit.limits), under its lock: the new
\* last_reset and num_calls, whether the call goes through, and the
\* period_remaining carried by RateLimitException otherwise
limits(t, lr, nc) ==
  LET period_remaining == PERIOD - (t - lr)
      reset == period_remaining <= 0
      n == (IF reset THEN 0 ELSE nc) + 1
  IN [last_reset |-> IF reset THEN t ELSE lr,
      num_calls |-> n,
      admit |-> n <= CALLS,
      period_remaining |-> period_remaining]

\* (mutant) the request is sent before the limiter is asked, so a call that
\* is held back has sent it already and sends it again when retried
AttemptSendFirst(c, lim, resp, out) ==
  IF lim.admit
  THEN [c EXCEPT !.st = "done", !.resp = resp, !.res = out, !.gets = @ + 1]
  ELSE [c EXCEPT !.st = "sleeping", !.wake = now + lim.period_remaining, !.gets = @ + 1]

\* One attempt of the decorated get_ip_geolocation by call c:
\* sleep_and_retry calls the limited function; on RateLimitException the
\* caller sleeps period_remaining and tries again, otherwise the body runs:
\* one requests.get, answered by resp, ending in out.
Attempt(c, lim, resp, out) ==
  IF lim.admit
  THEN [c EXCEPT !.st = "done", !.resp = resp, !.res = out, !.gets = @ + 1]
  ELSE [c EXCEPT !.st = "sleeping", !.wake = now + lim.period_remaining]

CanAttempt(c) == c.st = "running" \/ (c.st = "sleeping" /\ now >= c.wake)

LimiterStep(lim) ==
  /\ last_reset' = lim.last_reset
  /\ num_calls' = lim.num_calls
  /\ passed' = IF lim.admit THEN Append(passed, now) ELSE passed

\* --------------------------------------------------------------- save_results
\* save_results(data, format, filename), datetime.now() reading ts and
\* open() succeeding or not: the file is (re)written as far as WriteFile
\* gets, and the call either returns the file name or re-raises
save_results(data, format, filename, ts, io_ok) ==
  LET name == FileName(filename, format, ts)
      w == WriteFile(data, format, io_ok)
  IN /\ files' = IF w.created
                 THEN [f \in DOMAIN files \cup {name} |->
                         IF f = name
                         THEN [format |-> format, header |-> w.header,
                               complete |-> w.raised = ""]
                         ELSE files[f]]
                 ELSE files
     /\ saves' = Append(saves, [name |-> name, format |-> format, data |-> data,
                                raised |-> w.raised,
                                returned |-> IF w.raised = "" THEN name ELSE <<>>])

\* what the save_results call just made raised ("" when it returned)
SaveRaised(data, format, io_ok) == WriteFile(data, format, io_ok).raised

\* ----------------------------------------------------------------- bulk_lookup
Done(c) == c.st = "done"
InProgress(c) == c.st \in {"running", "sleeping"}
Running == { i \in 1..Len(futures) : InProgress(futures[i]) }
AllDone == \A i \in 1..Len(futures) : Done(futures[i])

\* (mutant) every input is submitted
Unchecked(ip) == TRUE

\* the condition of bulk_lookup's list comprehension
Valid(ip) == validate_input(strip(ip))

\* the list comprehension of bulk_lookup: one submit per input whose
\* stripped form validates, in input order
Submitted(list) ==
  LET kept == SelectSeq(list, Valid)
  IN [i \in 1..Len(kept) |-> NewCall(strip(kept[i]), "queued")]

\* ThreadPoolExecutor(max_workers) and the submits; a worker count below 1
\* makes the constructor raise ValueError
bulk_lookup(list, workers) ==
  /\ ips' = list
  /\ max_workers' = workers
  /\ results' = <<>>
  /\ order' = <<>>
  /\ IF workers >= 1
     THEN /\ futures' = Submitted(list)
          /\ started' = started + Len(futures')
          /\ ret' = NoResult
     ELSE /\ futures' = <<>>
          /\ started' = started
          /\ ret' = Raise("ValueError")

\* (mutant) a thread per work item, however many are running
CanStartUnbounded(i) ==
  /\ futures[i].st = "queued"
  /\ \A j \in 1..(i - 1) : futures[j].st # "queued"

\* a pool thread may take the next work item: the work queue is first in
\* first out and the pool holds at most max_workers threads
CanStart(i) ==
  /\ futures[i].st = "queued"
  /\ \A j \in 1..(i - 1) : futures[j].st # "queued"
  /\ Cardinality(Running) < max_workers

worker_start(i) ==
  /\ CanStart(i)
  /\ futures' = [futures EXCEPT ![i].st = "running"]
  /\ UNCHANGED <<now, limiter, args, pc, single, ips, max_workers, results, ret, disk,
                 order, started>>

\* a pool thread inside get_ip_geolocation
worker_attempt(i, answers) ==
  /\ CanAttempt(futures[i])
  /\ \E resp \in Responses(futures[i].ip, answers) : \E out \in TryRequest(futures[i].ip, resp) :
       LET lim == limits(now, last_reset, num_calls) IN
       /\ futures' = [futures EXCEPT ![i] = Attempt(@, lim, resp, out)]
       /\ LimiterStep(lim)
       /\ order' = IF lim.admit THEN Append(order, i) ELSE order
  /\ UNCHANGED <<now, args, pc, single, ips, max_workers, results, ret, disk, started>>

worker_call(i, answers) == futures[i].st = "running" /\ worker_attempt(i, answers)
worker_retry(i, answers) == futures[i].st = "sleeping" /\ worker_attempt(i, answers)

\* (mutant) results taken as the lookups complete, as with as_completed
NextCompleted ==
  IF Len(order) > Len(results) THEN order[Len(results) + 1] ELSE Len(results) + 1

\* the future whose result the loop takes next: the futures are walked in
\* submission order
NextFuture == Len(results) + 1

\* for future in futures: results.append(future.result())
collect ==
  /\ pc = "collect"
  /\ Len(results) < Len(futures)
  /\ LET f == futures[NextFuture] IN
     /\ Done(f)
     /\ IF f.res.kind = "ret"
        THEN results' = Append(results, f.res.rec) /\ pc' = "collect"
        ELSE results' = results /\ pc' = "shutdown"
  /\ UNCHANGED <<now, limiter, args, single, ips, max_workers, futures, ret, disk,
                 order, started>>

\* leaving the with block (shutdown(wait=True)) and return results
bulk_return ==
  /\ pc = "collect"
  /\ Len(results) = Len(futures)
  /\ AllDone
  /\ ret' = [kind |-> "list", recs |-> results]
  /\ pc' = "returned"
  /\ UNCHANGED <<now, limiter, args, single, ips, max_workers, futures, results, disk,
                 order, started>>

\* future.result() re-raised the lookup's exception: the with block still
\* waits for every submitted lookup, then the exception leaves bulk_lookup
bulk_raise ==
  /\ pc = "shutdown"
  /\ AllDone
  /\ ret' = (CHOOSE f \in { futures[i] : i \in 1..Len(futures) } : f.res.kind = "exc").res
  /\ pc' = "raised"
  /\ UNCHANGED <<now, limiter, args, single, ips, max_workers, futures, results, disk,
                 order, started>>

\* ------------------------------------------------- the main thread's own call
single_attempt(answers) ==
  /\ pc = "single"
  /\ CanAttempt(single)
  /\ \E resp \in Responses(single.ip, answers) : \E out \in TryRequest(single.ip, resp) :
       LET lim == limits(now, last_reset, num_calls) IN
       /\ single' = Attempt(single, lim, resp, out)
       /\ LimiterStep(lim)
  /\ UNCHANGED <<now, args, pc, pool, disk, started>>

single_call(answers) == single.st = "running" /\ single_attempt(answers)
single_retry(answers) == single.st = "sleeping" /\ single_attempt(answers)

\* ------------------------------------------------------------------- clock
Sleepers ==
  { c \in {single} \cup { futures[i] : i \in 1..Len(futures) } : c.st = "sleeping" }

Tick ==
  /\ now < MaxTime \/ \E c \in Sleepers : c.wake > now
  /\ now' = now + TickStep
  /\ passed' = SelectSeq(passed, LAMBDA t : t > now' - PERIOD)
  /\ UNCHANGED <<last_reset, num_calls, args, pc, single, pool, disk, started>>

\* --------------------------------------------------------------------- main
\* every sequence over S of length at most n
RECURSIVE SeqsUpTo(_, _)
SeqsUpTo(S, n) ==
  IF n = 0 THEN { <<>> }
  ELSE LET shorter == SeqsUpTo(S, n - 1)
       IN shorter \cup { Append(q, x) : q \in { r \in shorter : Len(r) = n - 1 }, x \in S }

\* values tried for -i
CliIps == {Ip8, Ip999, DomCo, PaddedCo, NewlineCo, DomShort, ThreeOctets, WithBlank}
\* lines a bulk file (or a comma-separated menu input) may hold
Lines == {Ip8, PaddedCo, WithBlank}
\* what the user types at the menu's single-lookup prompt
MenuIps == {Ip8, PaddedCo, DomShort}
\* identifiers the user types, comma-separated, at the menu's bulk prompt
MenuLines == {Ip8, WithBlank}

\* -o given ("results") or not (""); -f only matters with -o
Outputs == { [output |-> "", format |-> "json"] }
             \cup { [output |-> "results", format |-> f] : f \in Formats }

ArgsOf(mode, ip, lines, workers, o) ==
  [mode |-> mode, ip |-> ip, ips |-> lines, workers |-> workers,
   output |-> o.output, format |-> o.format]

\* parse_args(): the command lines considered
CliArgs ==
  { ArgsOf("manual", <<>>, <<>>, DefaultWorkers, [output |-> "", format |-> "json"]) }
    \cup { ArgsOf("ip", ip, <<>>, DefaultWorkers, o) : ip \in CliIps, o \in Outputs }
    \cup { ArgsOf("bulk", <<>>, lines, w, o) :
             lines \in SeqsUpTo(Lines, MaxBatch), w \in 0..MaxWorkers, o \in Outputs }
MenuArgs == ArgsOf("menu", <<>>, <<>>, DefaultWorkers, [output |-> "", format |-> "json"])

\* if args.manual: show_manual()
main_manual ==
  /\ pc = "main" /\ args.mode = "manual"
  /\ pc' = "exit"
  /\ UNCHANGED <<now, limiter, args, single, pool, disk, started>>

\* elif args.ip: validate, then the lookup (main does not strip)
main_ip ==
  /\ pc = "main" /\ args.mode = "ip"
  /\ IF validate_input(args.ip)
     THEN /\ single' = NewCall(args.ip, "running")
          /\ started' = started + 1
          /\ pc' = "single"
     ELSE /\ pc' = "exit"
          /\ UNCHANGED <<single, started>>
  /\ UNCHANGED <<now, limiter, args, pool, disk>>

\* the lookup came back: print and, with -o, save a success
main_ip_done ==
  /\ pc = "single" /\ args.mode = "ip" /\ Done(single)
  /\ IF single.res.kind = "exc"
     THEN pc' = "crashed" /\ UNCHANGED disk
     ELSE IF single.res.rec.status = "success" /\ args.output # ""
     THEN \E ts \in Stamps, io_ok \in BOOLEAN :
            LET data == [kind |-> "dict", rec |-> single.res.rec] IN
            /\ save_results(data, args.format, args.output, ts, io_ok)
            /\ pc' = IF SaveRaised(data, args.format, io_ok) = "" THEN "exit" ELSE "crashed"
     ELSE pc' = "exit" /\ UNCHANGED disk
  /\ UNCHANGED <<now, limiter, args, single, pool, started>>

\* elif args.bulk: read the file and run bulk_lookup
main_bulk ==
  /\ pc = "main" /\ args.mode = "bulk"
  /\ \E found \in BOOLEAN :
       IF found
       THEN /\ bulk_lookup(args.ips, args.workers)
            /\ pc' = IF args.workers >= 1 THEN "collect" ELSE "raised"
       ELSE /\ pc' = "exit"
            /\ UNCHANGED <<pool, started>>
  /\ UNCHANGED <<now, limiter, args, single, disk>>

\* results = bulk_lookup(...); if args.output: save_results(...)
main_bulk_done ==
  /\ pc = "returned" /\ args.mode = "bulk"
  /\ IF args.output # ""
     THEN \E ts \in Stamps, io_ok \in BOOLEAN :
            LET data == [kind |-> "list", recs |-> ret.recs] IN
            /\ save_results(data, args.format, args.output, ts, io_ok)
            /\ pc' = IF SaveRaised(data, args.format, io_ok) = "" THEN "exit" ELSE "crashed"
     ELSE pc' = "exit" /\ UNCHANGED disk
  /\ UNCHANGED <<now, limiter, args, single, pool, started>>

\* except Exception in main: logged and re-raised
main_bulk_failed ==
  /\ pc = "raised" /\ args.mode = "bulk"
  /\ pc' = "crashed"
  /\ UNCHANGED <<now, limiter, args, single, pool, disk, started>>

\* else: interactive_menu(geolocator)
main_menu ==
  /\ pc = "main" /\ args.mode = "menu"
  /\ pc' = "menu"
  /\ UNCHANGED <<now, limiter, args, single, pool, disk, started>>

\* ----------------------------------------------------------- interactive_menu
\* the user's answers to "Save results? (y/n)" and "Enter format": a save
\* happens on "y" with one of the three formats
SaveAnswers == { [save |-> FALSE, format |-> "json"] }
                 \cup { [save |-> TRUE, format |-> f] : f \in Formats }
NoSave == { [save |-> FALSE, format |-> "json"] }

\* choice 1, up to the lookup; no lookup is started once calls of them were made
menu_single(inputs, calls) ==
  /\ pc = "menu" /\ started < calls
  /\ \E typed \in inputs :
       LET ip == strip(typed) IN
       IF validate_input(ip)
       THEN /\ single' = NewCall(ip, "running")
            /\ started' = started + 1
            /\ saves' = <<>>
            /\ pc' = "single"
       ELSE UNCHANGED <<single, started, saves, pc>>
  /\ UNCHANGED <<now, limiter, args, pool, files>>

\* choice 1, after the lookup: a success is printed and may be saved; any
\* exception is caught by the loop and logged
menu_single_done(answers) ==
  /\ pc = "single" /\ args.mode = "menu" /\ Done(single)
  /\ IF single.res.kind = "ret" /\ single.res.rec.status = "success"
     THEN \E a \in answers :
            /\ IF a.save
               THEN \E ts \in Stamps, io_ok \in BOOLEAN :
                      save_results([kind |-> "dict", rec |-> single.res.rec],
                                   a.format, "", ts, io_ok)
               ELSE UNCHANGED disk
     ELSE UNCHANGED disk
  /\ single' = NoCall
  /\ pc' = "menu"
  /\ UNCHANGED <<now, limiter, args, pool, started>>

\* choice 2, up to the collection loop: bulk_lookup(ips) with the default
\* worker count
menu_bulk(lines, calls) ==
  /\ pc = "menu"
  /\ \E typed \in SeqsUpTo(lines, MaxBatch) :
       /\ typed # <<>>
       /\ started < calls
       /\ bulk_lookup(typed, DefaultWorkers)
  /\ saves' = <<>>
  /\ pc' = "collect"
  /\ UNCHANGED <<now, limiter, args, single, files>>

\* choice 2, after bulk_lookup returned
menu_bulk_done(answers) ==
  /\ pc = "returned" /\ args.mode = "menu"
  /\ \E a \in answers :
       /\ IF a.save
          THEN \E ts \in Stamps, io_ok \in BOOLEAN :
                 save_results([kind |-> "list", recs |-> ret.recs], a.format, "", ts, io_ok)
          ELSE UNCHANGED disk
  /\ ips' = <<>> /\ futures' = <<>> /\ results' = <<>> /\ ret' = NoResult /\ order' = <<>>
  /\ pc' = "menu"
  /\ UNCHANGED <<now, limiter, args, single, max_workers, started>>

\* choice 2, bulk_lookup raised: caught by the loop and logged
menu_bulk_failed ==
  /\ pc = "raised" /\ args.mode = "menu"
  /\ ips' = <<>> /\ futures' = <<>> /\ results' = <<>> /\ ret' = NoResult /\ order' = <<>>
  /\ pc' = "menu"
  /\ UNCHANGED <<now, limiter, args, single, max_workers, disk, started>>

\* choice 4
menu_exit ==
  /\ pc = "menu"
  /\ pc' = "exit"
  /\ UNCHANGED <<now, limiter, args, single, pool, disk, started>>

\* ------------------------------------------------------------ specifications
InitWith(a) ==
  /\ now = 0
  /\ last_reset = 0
  /\ num_calls = 0
  /\ args = a
  /\ pc = "main"
  /\ single = NoCall
  /\ ips = <<>>
  /\ max_workers = DefaultWorkers
  /\ futures = <<>>
  /\ results = <<>>
  /\ ret = NoResult
  /\ files = << >>
  /\ saves = <<>>
  /\ order = <<>>
  /\ passed = <<>>
  /\ started = 0

\* what the network is taken to do: anything to a command-line run; a
\* success, a timeout or an unparsable body to a request of a short session
MenuAnswers == {"success", "Timeout", "notjson"}
Answers == IF args.mode = "menu" THEN MenuAnswers ELSE AllAnswers

\* one run of the tool: a command line, or a short interactive session
Init == \E a \in CliArgs \cup {MenuArgs} : InitWith(a)

Next ==
  \/ main_manual
  \/ main_ip
  \/ main_ip_done
  \/ main_bulk
  \/ main_bulk_done
  \/ main_bulk_failed
  \/ main_menu
  \/ menu_single(MenuIps, MaxMenuCalls)
  \/ menu_single_done(SaveAnswers)
  \/ menu_bulk(MenuLines, MaxMenuCalls)
  \/ menu_bulk_done(SaveAnswers)
  \/ menu_bulk_failed
  \/ menu_exit
  \/ single_call(Answers)
  \/ \E i \in 1..Len(futures) : worker_start(i)
  \/ \E i \in 1..Len(futures) : worker_call(i, Answers)
  \/ collect
  \/ bulk_return
  \/ bulk_raise

Spec == Init /\ [][Next]_vars

\* a long interactive session in which the user never saves: enough lookups
\* to exhaust the rate limiter's budget
RateAnswers == {"success", "Timeout", "notjson"}
RateLines == {Ip8}

InitRate == InitWith(MenuArgs)

NextRate ==
  \/ main_menu
  \/ menu_single(RateLines, MaxCalls)
  \/ menu_single_done(NoSave)
  \/ menu_bulk(RateLines, MaxCalls)
  \/ menu_bulk_done(NoSave)
  \/ menu_bulk_failed
  \/ menu_exit
  \/ single_call(RateAnswers)
  \/ single_retry(RateAnswers)
  \/ \E i \in 1..Len(futures) : worker_start(i)
  \/ \E i \in 1..Len(futures) : worker_call(i, RateAnswers)
  \/ \E i \in 1..Len(futures) : worker_retry(i, RateAnswers)
  \/ collect
  \/ bulk_return
  \/ bulk_raise
  \/ Tick

SpecRate == InitRate /\ [][NextRate]_vars

\* the same session under fair scheduling: every thread that can take a
\* step eventually does, the exception handler of the menu loop runs, and
\* time advances; the user is free to stay idle
FairRate ==
  /\ SpecRate
  /\ WF_vars(Tick)
  /\ WF_vars(single_call(RateAnswers)) /\ WF_vars(single_retry(RateAnswers))
  /\ WF_vars(collect) /\ WF_vars(bulk_return) /\ WF_vars(bulk_raise)
  /\ WF_vars(menu_bulk_failed)
  /\ \A i \in 1..MaxBatch :
       /\ WF_vars(i <= Len(futures) /\ worker_start(i))
       /\ WF_vars(i <= Len(futures) /\ worker_call(i, RateAnswers))
       /\ WF_vars(i <= Len(futures) /\ worker_retry(i, RateAnswers))

\* ------------------------------------------------------------------ claims
Calls == {single} \cup { futures[i] : i \in 1..Len(futures) }

\* strip and validate_input tabulated over the strings that occur
Inputs == CliIps \cup Lines \cup MenuIps \cup MenuLines
Stripped == [s \in Inputs |-> strip(s)]
Accepted == { s \in Inputs \cup { Stripped[x] : x \in Inputs } : validate_input(s) }

\* inputs of the running bulk_lookup whose stripped form validates
ValidInputs == SelectSeq(ips, LAMBDA x : Stripped[x] \in Accepted)

RECURSIVE GetsUpTo(_)
GetsUpTo(n) == IF n = 0 THEN 0 ELSE futures[n].gets + GetsUpTo(n - 1)

BulkOver == pc \in {"returned", "raised"}

\* C1: with a worker count of at least 1, a bulk_lookup call that is over
\* has returned a list holding exactly one record per input whose stripped
\* form validates, whatever each request came back with.
C1_OneRecordPerValidInput ==
  (BulkOver /\ max_workers >= 1) =>
    /\ ret.kind = "list"
    /\ Len(ret.recs) = Len(ValidInputs)

\* C2: at no moment have more than 45 calls got past the rate limiter
\* within the trailing 60 seconds.
C2_RollingWindowCap == Len(passed) <= CALLS

\* C3: a call held back by the rate limiter goes on to finish its lookup,
\* and every bulk_lookup call under way eventually returns.
C3_LimitedCallsProceedAndBulkReturns ==
  /\ \A i \in 1..MaxBatch :
       [](i <= Len(futures) /\ futures[i].st = "sleeping"
            => <>(i <= Len(futures) /\ futures[i].st = "done"))
  /\ [](single.st = "sleeping" => <>(single.st = "done"))
  /\ [](pc = "collect" => <>(pc = "returned"))

\* (part of C3 that the code satisfies) a call held back by the rate limiter
\* is never answered because of the limit and goes on to send its request;
\* a bulk_lookup call under way eventually comes to an end.
LimitedCallsProceed ==
  /\ \A i \in 1..MaxBatch :
       [](i <= Len(futures) /\ futures[i].st = "sleeping"
            => <>(i <= Len(futures) /\ futures[i].st = "done" /\ futures[i].gets = 1))
  /\ [](single.st = "sleeping" => <>(single.st = "done" /\ single.gets = 1))
  /\ [](pc = "collect" => <>BulkOver)

\* C4 (as stated): the returned list holds the records in the order in which
\* the lookups completed.
C4_CompletionOrder ==
  ret.kind = "list" =>
    ret.recs = [k \in 1..Len(order) |-> futures[order[k]].res.rec]

\* C4 (amended): the returned list holds the records in the order of the
\* valid inputs, whatever the order in which the lookups completed.
C4_InputOrder ==
  ret.kind = "list" =>
    /\ ret.recs = [k \in 1..Len(futures) |-> futures[k].res.rec]
    /\ \A k \in 1..Len(futures) : futures[k].ip = Stripped[ValidInputs[k]]

\* two lookups, the second input's finished first, and their records differ
C4_Witness ==
  /\ ret.kind = "list"
  /\ order = <<2, 1>>
  /\ ret.recs[1] # ret.recs[2]

\* C5 (as stated): every failure record a call returned holds the requested
\* identifier as its query and holds a message, and a network or HTTP error
\* is returned, never raised.
C5_FailureRecordShape ==
  \A c \in Calls :
    Done(c) =>
      /\ c.resp.kind = "raise" => c.res.kind = "ret"
      /\ (c.res.kind = "ret" /\ c.res.rec.status = "fail") =>
           /\ "query" \in DOMAIN c.res.rec
           /\ c.res.rec.query = c.ip
           /\ "message" \in DOMAIN c.res.rec

\* C5 (amended): a network or HTTP error is returned, never raised, as a
\* record with status "fail", the requested identifier as query and the
\* exception text as message; a body received with HTTP 200 is returned as
\* received, so an API "fail" body holds a query and a message only if the
\* API sent them.
C5_LocalFailuresAndPassThrough ==
  \A c \in Calls :
    Done(c) =>
      /\ c.resp.kind = "raise" =>
           c.res = Ret([status |-> "fail", query |-> c.ip, message |-> c.resp.exc])
      /\ c.resp.kind = "body" => c.res = Ret(c.resp.body)

\* one batch holding a locally built failure record and an API "fail" body
\* that names no query
C5_Witness ==
  /\ Len(futures) = 2
  /\ Done(futures[1]) /\ futures[1].resp.kind = "raise"
  /\ futures[1].res.rec.query = futures[1].ip
  /\ Done(futures[2]) /\ futures[2].resp.kind = "body"
  /\ futures[2].res.rec.status = "fail"
  /\ "query" \notin DOMAIN futures[2].res.rec

\* C6: no call of get_ip_geolocation, hence no request and no record, exists
\* for an identifier whose stripped form fails validate_input; bulk_lookup
\* submits exactly the inputs whose stripped form validates and, once over,
\* has sent exactly that many requests; main starts no lookup for such a
\* -i value.
C6_NoRequestForInvalid ==
  /\ \A c \in Calls : c.st # "idle" => Stripped[c.ip] \in Accepted
  /\ max_workers >= 1 =>
       /\ Len(futures) = Len(ValidInputs)
       /\ \A k \in 1..Len(futures) : futures[k].ip = Stripped[ValidInputs[k]]
       /\ Len(results) <= Len(ValidInputs)
       /\ GetsUpTo(Len(futures)) <= Len(ValidInputs)
       /\ BulkOver => GetsUpTo(Len(futures)) = Len(ValidInputs)
  /\ (args.mode = "ip" /\ Stripped[args.ip] \notin Accepted) => single = NoCall

\* a bulk_lookup over one valid and one invalid input is over, one request sent
C6_Witness ==
  /\ BulkOver
  /\ Len(ips) = 2
  /\ Len(ValidInputs) = 1
  /\ GetsUpTo(Len(futures)) = 1

\* the records handed to a csv save
CsvRows(s) == IF s.data.kind = "dict" THEN <<s.data.rec>> ELSE s.data.recs

LookupCompleted ==
  \/ args.mode = "ip" /\ Done(single)
  \/ args.mode = "bulk" /\ ret.kind = "list" /\ ret.recs # <<>>

\* C8: when a command-line run that completed a lookup is over, a result
\* file has been written, at the -o path or else at an auto-generated path.
C8_ResultsAlwaysSaved ==
  (pc = "exit" /\ LookupCompleted) =>
    \E f \in DOMAIN files :
      /\ files[f].complete
      /\ f[1] = (IF args.output # "" THEN args.output ELSE "output/geolocation_results")

\* C9: never more than max_workers lookups of a batch are in progress; a
\* list is returned only once every submitted lookup is done; and no
\* save_results call happens while a lookup of the batch is in flight.
C9_BoundedPoolThenSave ==
  /\ [](/\ Cardinality(Running) <= max_workers
        /\ ret.kind = "list" => (AllDone /\ Len(ret.recs) = Len(futures))
        /\ Running # {} => pc \in {"collect", "shutdown"})
  /\ [][Len(saves') > Len(saves) => (AllDone /\ Running = {})]_vars

\* a batch of two ran on a pool of one, came back and was saved
C9_Witness ==
  /\ args.mode = "bulk"
  /\ max_workers = 1
  /\ Len(futures) = 2
  /\ pc = "exit"
  /\ Len(saves) = 1
  /\ saves[1].data.recs = ret.recs

\* C10: a call has sent one GET once it is done and none before, also when
\* the rate limiter put it to sleep first, and a call that is done stays as
\* it is: nothing is sent again.
C10_OneGetPerCall ==
  /\ [](\A c \in Calls : c.gets = (IF Done(c) THEN 1 ELSE 0))
  /\ [][\A i \in 1..Len(futures) :
          (Done(futures[i]) /\ i <= Len(futures')) => futures'[i] = futures[i]]_vars
  /\ [][(Done(single) /\ single'.st # "idle") => single' = single]_vars

\* a call that slept on the rate limit, was admitted later and failed, with
\* one GET sent
C10_Witness ==
  \E c \in Calls :
    /\ Done(c)
    /\ c.wake > 0
    /\ c.gets = 1
    /\ c.res.kind = "ret"
    /\ c.res.rec.status = "fail"

====
